---- MODULE Spec2Model ----
(***************************************************************************)
(* Nexus Router: the /route handler of src/app/main.py (route_transaction) *)
(* with the price fetch (get_token_prices_usd), the per-chain collection   *)
(* (get_chain_metrics), the USD fee estimate, the cheapest/fastest         *)
(* selection and the explanation call (generate_explanation).              *)
(*                                                                         *)
(* Units.  Python floats are modelled as scaled integers:                  *)
(*   gas_price_wei            wei                                          *)
(*   gas_price_gwei           hundredths of a gwei (the code keeps two     *)
(*                            decimals: float(f"{gas_price_gwei:.2f}"))    *)
(*   estimated_fee_gwei       hundredths of a gwei                         *)
(*   native_token_price_usd   whole USD                                    *)
(*   estimated_fee_usd        10^-11 USD  (hundredths of gwei * USD)       *)
(*   reported estimated_fee_usd (4 decimals)   10^-4 USD                   *)
(*   avg_block_time_seconds   tenths of a second                           *)
(* Binary floating-point rounding error is not modelled.                   *)
(***************************************************************************)
EXTENDS Integers, Sequences, FiniteSets, TLC

VARIABLES
    user_preference,                \* request.user_preference
    native_token_symbols_to_fetch,  \* the symbols handed to get_token_prices_usd
    pc,                             \* position of the handler
    token_prices_usd,               \* result of get_token_prices_usd
    chain_idx,                      \* position of the loop over CHAIN_CONFIGS
    chain_metrics,                  \* the list the loop appends to
    optimal_chain,                  \* the selected metric
    response,                       \* what the handler returns or raises
    launched,                       \* awaited calls started so far, in order
    completed                       \* awaited calls that ended, in order, each with
                                    \* how it ended: [task, outcome]

vars == <<user_preference, native_token_symbols_to_fetch, pc, token_prices_usd,
          chain_idx, chain_metrics, optimal_chain, response, launched, completed>>

----------------------------------------------------------------------------
(* Bounds of the model *)

\* prices offered by the market-data source: 1..MaxPriceLevel times 1000 USD
MaxPriceLevel == 1
\* ranking inputs of SpecMono: length of the sequence and fee levels of a metric
MaxMonoLen == 3
MaxMonoFee == 2
\* ranking inputs of SpecSelect: length, block time and fee of a metric
MaxLen == 4
MaxBlockTime == 2
MaxFee == 1

----------------------------------------------------------------------------
(* Sentinels of the Python code *)

\* None (a price that could not be fetched)
None == -1
\* float('inf'): greater than every fee the model can compute
Inf == 2000000000
\* the "N/A" a report shows for an infinite fee
NA == -2

----------------------------------------------------------------------------
(* Static configuration *)

COINGECKO_TOKEN_MAP ==
    [ETH |-> "ethereum", MATIC |-> "matic-network",
     AVAX |-> "avalanche-2", BNB |-> "binancecoin"]

CoinGeckoIds == {COINGECKO_TOKEN_MAP[s] : s \in DOMAIN COINGECKO_TOKEN_MAP}

\* CHAIN_CONFIGS in dictionary (insertion) order; block times in tenths of a second
CHAIN_CONFIGS ==
    << [name |-> "ethereum",  display_name |-> "Ethereum Mainnet",
        avg_block_time_seconds |-> 130,  native_token_symbol |-> "ETH"],
       [name |-> "polygon",   display_name |-> "Polygon Mainnet",
        avg_block_time_seconds |-> 22,   native_token_symbol |-> "MATIC"],
       [name |-> "avalanche", display_name |-> "Avalanche C-Chain",
        avg_block_time_seconds |-> 20,   native_token_symbol |-> "AVAX"],
       [name |-> "bitcoin",   display_name |-> "Bitcoin",
        avg_block_time_seconds |-> 6000, native_token_symbol |-> "BTC"],
       [name |-> "solana",    display_name |-> "Solana",
        avg_block_time_seconds |-> 4,    native_token_symbol |-> "SOL"],
       [name |-> "optimism",  display_name |-> "Optimism Mainnet",
        avg_block_time_seconds |-> 5,    native_token_symbol |-> "ETH"],
       [name |-> "bsc",       display_name |-> "BNB Smart Chain",
        avg_block_time_seconds |-> 30,   native_token_symbol |-> "BNB"] >>

NumChains == Len(CHAIN_CONFIGS)

ChainNames == {CHAIN_CONFIGS[i].name : i \in 1..NumChains}

\* CHAIN_CONFIGS.get(chain_name): the position of the entry, 0 when there is none
ConfigIndex(chain_name) ==
    IF \E i \in 1..NumChains : CHAIN_CONFIGS[i].name = chain_name
    THEN CHOOSE i \in 1..NumChains : CHAIN_CONFIGS[i].name = chain_name
    ELSE 0

\* every native token symbol of the registry (BTC and SOL have no CoinGecko id)
TokenSymbols == {CHAIN_CONFIGS[i].native_token_symbol : i \in 1..NumChains}

----------------------------------------------------------------------------
(* Errors: HTTPException(status_code, detail) *)

HTTPException(status_code, detail) ==
    [kind |-> "error", status_code |-> status_code, detail |-> detail]

PricesUnavailable ==
    HTTPException(500, "Failed to fetch real-time token prices. Cannot perform cost comparison.")
NoViableChains ==
    HTTPException(500, "Could not fetch metrics for any supported chain.")
NoComparableChains ==
    HTTPException(500, "No chains available for cost comparison (token prices missing).")
InvalidPreference ==
    HTTPException(400, "Invalid user preference. Choose 'cheapest' or 'fastest'.")
NoOptimalChain ==
    HTTPException(500, "Could not determine an optimal chain.")

----------------------------------------------------------------------------
(* Number formatting *)

\* n/d rounded to the nearest integer, ties to even: what f"{x:.2f}" does to a
\* Decimal and f"{x:.4f}" to a float
RoundHalfEven(n, d) ==
    LET q == n \div d
        r == n % d
    IN  IF 2 * r < d THEN q
        ELSE IF 2 * r > d THEN q + 1
        ELSE IF q % 2 = 0 THEN q ELSE q + 1

\* float(f"{w3.from_wei(gas_price_wei, 'gwei'):.2f}"), in hundredths of a gwei
gas_price_gwei_of(gas_price_wei) == RoundHalfEven(gas_price_wei, 10000000)

\* float(f"{estimated_fee_usd:.4f}") or "N/A", in 10^-4 USD
format_fee_usd(estimated_fee_usd) ==
    IF estimated_fee_usd # Inf THEN RoundHalfEven(estimated_fee_usd, 10000000) ELSE NA

\* float(f"{estimated_fee_gwei:.2f}"), in hundredths of a gwei
format_fee_gwei(estimated_fee_gwei) == RoundHalfEven(estimated_fee_gwei, 1)

----------------------------------------------------------------------------
(* PriceOracleClient: get_token_prices_usd *)

Prices == {1000 * p : p \in 1..MaxPriceLevel}

\* the JSON object of a successful response: CoinGecko id -> usd price, for
\* any subset of the ids
PriceData == UNION {[S -> Prices] : S \in SUBSET CoinGeckoIds}

NoData == [i \in {} |-> 0]

\* what the market-data request can do
Upstreams ==
    {[kind |-> k, data |-> NoData] : k \in {"request_error", "http_status", "bad_json"}}
    \cup {[kind |-> "ok", data |-> d] : d \in PriceData}

AllNone(token_symbols) == [s \in token_symbols |-> None]

\* the price branch of the loop of get_token_prices_usd, lines 76-82
PriceOf(symbol, data) ==
    IF symbol \in DOMAIN COINGECKO_TOKEN_MAP
       /\ COINGECKO_TOKEN_MAP[symbol] \in DOMAIN data
    THEN data[COINGECKO_TOKEN_MAP[symbol]]
    ELSE None

\* get_token_prices_usd with the except branches returning an empty dict
get_token_prices_usd_empty_on_failure(token_symbols, upstream) ==
    IF token_symbols \cap DOMAIN COINGECKO_TOKEN_MAP # {} /\ upstream.kind = "ok"
    THEN [s \in token_symbols |-> PriceOf(s, upstream.data)]
    ELSE [s \in {} |-> None]

get_token_prices_usd(token_symbols, upstream) ==
    LET coingecko_ids ==
            {COINGECKO_TOKEN_MAP[s] : s \in token_symbols \cap DOMAIN COINGECKO_TOKEN_MAP}
    IN  IF coingecko_ids = {} THEN [s \in {} |-> None]
        ELSE IF upstream.kind = "ok"
             THEN [s \in token_symbols |-> PriceOf(s, upstream.data)]
             ELSE AllNone(token_symbols)

\* token_prices_usd.get(symbol)
DictGet(d, k) == IF k \in DOMAIN d THEN d[k] ELSE None

----------------------------------------------------------------------------
(* ChainMetricsCollector: get_chain_metrics *)

\* gas prices the RPC endpoints answer with: 0.005 gwei, which the two-decimal
\* conversion rounds to 0.00, and 0.01 gwei
GasPricesWei == {5000000, 10000000}

\* the gas prices tried for a chain: both for a chain whose native token has a
\* CoinGecko id, the larger one alone for the others (bitcoin, solana), whose gas
\* price never enters a USD fee
GasPricesWeiOf(chain_name) ==
    IF CHAIN_CONFIGS[ConfigIndex(chain_name)].native_token_symbol \in DOMAIN COINGECKO_TOKEN_MAP
    THEN GasPricesWei
    ELSE {10000000}

\* what the chain's RPC side can be: no client (URL missing or Web3 failed to
\* initialise), a client that is not connected, a gas-price query that raises a
\* Web3Exception or another exception, or a gas price
RpcOutcomes(chain_name) ==
    {[kind |-> k, gas_price_wei |-> 0] :
        k \in {"no_client", "not_connected", "web3_error", "error"}}
    \cup {[kind |-> "ok", gas_price_wei |-> w] : w \in GasPricesWeiOf(chain_name)}

get_chain_metrics(chain_name, rpc) ==
    LET i == ConfigIndex(chain_name)
        config == CHAIN_CONFIGS[i]
    IN  IF i = 0 THEN HTTPException(404, "Chain not supported.")
        ELSE IF rpc.kind \in {"no_client", "not_connected"}
        THEN HTTPException(503, "RPC not connected or URL not set correctly.")
        ELSE IF rpc.kind = "web3_error"
        THEN HTTPException(500, "Web3 error fetching metrics")
        ELSE IF rpc.kind = "error"
        THEN HTTPException(500, "An unexpected error occurred while fetching metrics")
        ELSE [kind |-> "ok",
              chain |-> config.display_name,
              native_token_symbol |-> config.native_token_symbol,
              gas_price_wei |-> rpc.gas_price_wei,
              gas_price_gwei |-> gas_price_gwei_of(rpc.gas_price_wei),
              avg_block_time_seconds |-> config.avg_block_time_seconds]

----------------------------------------------------------------------------
(* CostNormalizer: the fee estimate inside the loop of route_transaction *)

\* estimated_fee_gwei = gas_price_gwei * 21000
estimated_fee_gwei_of(gas_price_gwei) == gas_price_gwei * 21000

\* (estimated_fee_gwei / 1_000_000_000) * native_token_price_usd, in 10^-11 USD,
\* or float('inf') when the price is None
estimated_fee_usd_of(estimated_fee_gwei, native_token_price_usd) ==
    IF native_token_price_usd = None THEN Inf
    ELSE estimated_fee_gwei * native_token_price_usd

\* the metrics dict after lines 306-321
WithFee(metrics, prices) ==
    LET native_token_price_usd == DictGet(prices, metrics.native_token_symbol)
        estimated_fee_gwei == estimated_fee_gwei_of(metrics.gas_price_gwei)
    IN  [chain |-> metrics.chain,
         native_token_symbol |-> metrics.native_token_symbol,
         gas_price_wei |-> metrics.gas_price_wei,
         gas_price_gwei |-> metrics.gas_price_gwei,
         avg_block_time_seconds |-> metrics.avg_block_time_seconds,
         estimated_fee_gwei |-> estimated_fee_gwei,
         estimated_fee_usd |-> estimated_fee_usd_of(estimated_fee_gwei, native_token_price_usd),
         native_token_price_usd |-> native_token_price_usd]

----------------------------------------------------------------------------
(* RankingEngine: lines 328-347 of route_transaction *)

\* Python's min(seq, key=...): the first element whose key is minimal
PyMinIndex(keys) ==
    CHOOSE i \in 1..Len(keys) :
        /\ \A j \in 1..Len(keys) : keys[i] <= keys[j]
        /\ \A j \in 1..(i - 1) : keys[j] # keys[i]

IsComparable(c) == c.estimated_fee_usd # Inf

\* comparable_chains without the filter on float('inf')
comparable_chains_unfiltered(metrics) == metrics

\* [c for c in chain_metrics if c["estimated_fee_usd"] != float('inf')]
comparable_chains_of(metrics) == SelectSeq(metrics, IsComparable)

\* the cheapest selection keeping the last of the metrics tied at the minimum
cheapest_of_last_tie(comparable_chains) ==
    comparable_chains[
        CHOOSE i \in 1..Len(comparable_chains) :
            /\ \A j \in 1..Len(comparable_chains) :
                comparable_chains[i].estimated_fee_usd <= comparable_chains[j].estimated_fee_usd
            /\ \A j \in (i + 1)..Len(comparable_chains) :
                comparable_chains[j].estimated_fee_usd # comparable_chains[i].estimated_fee_usd]

\* the cheapest selection with max() in place of min()
cheapest_of_max(comparable_chains) ==
    comparable_chains[
        CHOOSE i \in 1..Len(comparable_chains) :
            /\ \A j \in 1..Len(comparable_chains) :
                comparable_chains[i].estimated_fee_usd >= comparable_chains[j].estimated_fee_usd
            /\ \A j \in 1..(i - 1) :
                comparable_chains[j].estimated_fee_usd # comparable_chains[i].estimated_fee_usd]

cheapest_of(comparable_chains) ==
    comparable_chains[
        PyMinIndex([i \in 1..Len(comparable_chains) |-> comparable_chains[i].estimated_fee_usd])]

\* the fastest selection keyed on the fee instead of the block time
fastest_of_by_fee(metrics) ==
    metrics[PyMinIndex([i \in 1..Len(metrics) |-> metrics[i].estimated_fee_usd])]

fastest_of(metrics) ==
    metrics[PyMinIndex([i \in 1..Len(metrics) |-> metrics[i].avg_block_time_seconds])]

NoChain == [kind |-> "none"]

\* select falling back to the first registry entry when nothing was collected
select_default_chain(metrics, preference) ==
    IF preference \notin {"cheapest", "fastest"} THEN InvalidPreference
    ELSE IF metrics = <<>>
    THEN [kind |-> "ok",
          chain |-> [chain |-> CHAIN_CONFIGS[1].display_name,
                     native_token_symbol |-> CHAIN_CONFIGS[1].native_token_symbol,
                     gas_price_wei |-> 0,
                     gas_price_gwei |-> 0,
                     avg_block_time_seconds |-> CHAIN_CONFIGS[1].avg_block_time_seconds,
                     estimated_fee_gwei |-> 0,
                     estimated_fee_usd |-> Inf,
                     native_token_price_usd |-> None]]
    ELSE IF preference = "cheapest"
    THEN IF comparable_chains_of(metrics) = <<>> THEN NoComparableChains
         ELSE [kind |-> "ok", chain |-> cheapest_of(comparable_chains_of(metrics))]
    ELSE [kind |-> "ok", chain |-> fastest_of(metrics)]

\* select validating the preference before the empty check
select_preference_first(metrics, preference) ==
    IF preference \notin {"cheapest", "fastest"} THEN InvalidPreference
    ELSE IF metrics = <<>> THEN NoViableChains
    ELSE IF preference = "cheapest"
    THEN IF comparable_chains_of(metrics) = <<>> THEN NoComparableChains
         ELSE [kind |-> "ok", chain |-> cheapest_of(comparable_chains_of(metrics))]
    ELSE [kind |-> "ok", chain |-> fastest_of(metrics)]

\* the outcome of lines 328-347: an HTTPException or the optimal chain
select(metrics, preference) ==
    IF metrics = <<>> THEN NoViableChains
    ELSE IF preference = "cheapest"
    THEN IF comparable_chains_of(metrics) = <<>> THEN NoComparableChains
         ELSE [kind |-> "ok", chain |-> cheapest_of(comparable_chains_of(metrics))]
    ELSE IF preference = "fastest"
    THEN [kind |-> "ok", chain |-> fastest_of(metrics)]
    ELSE InvalidPreference

----------------------------------------------------------------------------
(* The response, lines 348-396 *)

\* an entry of all_chains_metrics
ReportEntry(m) ==
    [chain |-> m.chain,
     estimated_gas_fee_gwei |-> format_fee_gwei(m.estimated_fee_gwei),
     estimated_fee_usd |-> format_fee_usd(m.estimated_fee_usd),
     avg_block_time_seconds |-> m.avg_block_time_seconds]

all_chains_metrics_of(metrics) == [i \in 1..Len(metrics) |-> ReportEntry(metrics[i])]

\* recommendation.details
DetailsOf(m) ==
    [estimated_gas_fee_gwei |-> format_fee_gwei(m.estimated_fee_gwei),
     estimated_gas_fee_usd |-> format_fee_usd(m.estimated_fee_usd),
     estimated_time_seconds |-> m.avg_block_time_seconds,
     native_token |-> m.native_token_symbol,
     current_gas_price_gwei |-> m.gas_price_gwei,
     native_token_price_usd |-> m.native_token_price_usd]

\* what the text-generation side can be: GEMINI_API_KEY missing, generate_content
\* raising, or a text
GeminiOutcomes == {"no_key", "error", "ok"}

generate_explanation(gemini) ==
    IF gemini = "no_key"
    THEN "Generative AI explanation is not available (API key missing)."
    ELSE IF gemini = "ok" THEN "response.text"
    ELSE "Could not generate AI explanation: "

FallbackTexts ==
    {"Generative AI explanation is not available (API key missing).",
     "Could not generate AI explanation: "}

RouteResponse(chosen, metrics, ai_explanation) ==
    [kind |-> "ok",
     recommendation |-> [chain |-> chosen.chain,
                         details |-> DetailsOf(chosen),
                         ai_explanation |-> ai_explanation],
     all_chains_metrics |-> all_chains_metrics_of(metrics)]

----------------------------------------------------------------------------
(* route_transaction, one action per awaited call or step *)

\* request.user_preference is a free string: the two recognised values and one other
Preferences == {"cheapest", "fastest", "fast"}

NoResponse == [kind |-> "none"]

\* an entry of the log of ended calls
Ended(task, outcome) == [task |-> task, outcome |-> outcome]

\* list(set(config["native_token_symbol"] for config in CHAIN_CONFIGS.values()))
RegistrySymbols == TokenSymbols

Init ==
    /\ user_preference \in Preferences
    /\ native_token_symbols_to_fetch = RegistrySymbols
    /\ pc = "fetch_prices"
    /\ token_prices_usd = [s \in {} |-> None]
    /\ chain_idx = 1
    /\ chain_metrics = <<>>
    /\ optimal_chain = NoChain
    /\ response = NoResponse
    /\ launched = <<>>
    /\ completed = <<>>

\* lines 294-298: await get_token_prices_usd(...), then the empty-dict check
FetchPrices ==
    /\ pc = "fetch_prices"
    /\ \E upstream \in Upstreams :
        LET prices == get_token_prices_usd(native_token_symbols_to_fetch, upstream)
        IN  /\ token_prices_usd' = prices
            /\ completed' = Append(completed, Ended("prices", upstream.kind))
            /\ IF DOMAIN prices = {}
               THEN /\ response' = PricesUnavailable
                    /\ pc' = "done"
               ELSE /\ response' = response
                    /\ pc' = "collect"
    /\ launched' = Append(launched, "prices")
    /\ UNCHANGED <<user_preference, native_token_symbols_to_fetch, chain_idx,
                   chain_metrics, optimal_chain>>

\* the loop without the except HTTPException: a failed collection ends the request
Collect_failure_escapes ==
    /\ pc = "collect"
    /\ chain_idx <= NumChains
    /\ \E rpc \in RpcOutcomes(CHAIN_CONFIGS[chain_idx].name) :
        LET chain_name == CHAIN_CONFIGS[chain_idx].name
            metrics == get_chain_metrics(chain_name, rpc)
        IN  IF metrics.kind = "ok"
            THEN /\ chain_metrics' = Append(chain_metrics, WithFee(metrics, token_prices_usd))
                 /\ completed' = Append(completed, Ended(chain_name, "ok"))
                 /\ response' = response
                 /\ pc' = IF chain_idx = NumChains THEN "rank" ELSE "collect"
            ELSE /\ chain_metrics' = chain_metrics
                 /\ completed' = Append(completed, Ended(chain_name, "failed"))
                 /\ response' = metrics
                 /\ pc' = "done"
    /\ launched' = Append(launched, CHAIN_CONFIGS[chain_idx].name)
    /\ chain_idx' = chain_idx + 1
    /\ UNCHANGED <<user_preference, native_token_symbols_to_fetch, token_prices_usd,
                   optimal_chain>>

\* lines 301-326: one iteration of the loop over CHAIN_CONFIGS
Collect ==
    /\ pc = "collect"
    /\ chain_idx <= NumChains
    /\ \E rpc \in RpcOutcomes(CHAIN_CONFIGS[chain_idx].name) :
        LET chain_name == CHAIN_CONFIGS[chain_idx].name
            metrics == get_chain_metrics(chain_name, rpc)
        IN  IF metrics.kind = "ok"
            THEN /\ chain_metrics' = Append(chain_metrics, WithFee(metrics, token_prices_usd))
                 /\ completed' = Append(completed, Ended(chain_name, "ok"))
            ELSE \* except HTTPException: skip the chain
                 /\ chain_metrics' = chain_metrics
                 /\ completed' = Append(completed, Ended(chain_name, "failed"))
    /\ launched' = Append(launched, CHAIN_CONFIGS[chain_idx].name)
    /\ chain_idx' = chain_idx + 1
    /\ pc' = IF chain_idx = NumChains THEN "rank" ELSE "collect"
    /\ UNCHANGED <<user_preference, native_token_symbols_to_fetch, token_prices_usd,
                   optimal_chain, response>>

\* lines 328-347
Rank ==
    /\ pc = "rank"
    /\ LET r == select(chain_metrics, user_preference)
       IN  IF r.kind = "error"
           THEN /\ response' = r
                /\ optimal_chain' = optimal_chain
                /\ pc' = "done"
           ELSE IF DOMAIN r.chain = {}
           THEN /\ response' = NoOptimalChain
                /\ optimal_chain' = optimal_chain
                /\ pc' = "done"
           ELSE /\ response' = response
                /\ optimal_chain' = r.chain
                /\ pc' = "explain"
    /\ UNCHANGED <<user_preference, native_token_symbols_to_fetch, token_prices_usd,
                   chain_idx, chain_metrics, launched, completed>>

\* the explanation call without its try/except: a failed generation ends the request
Explain_failure_raises ==
    /\ pc = "explain"
    /\ \E gemini \in GeminiOutcomes :
        /\ response' = IF gemini = "error"
                       THEN HTTPException(500, "Internal Server Error")
                       ELSE RouteResponse(optimal_chain, chain_metrics,
                                          generate_explanation(gemini))
        /\ completed' = Append(completed, Ended("explain", gemini))
    /\ launched' = Append(launched, "explain")
    /\ pc' = "done"
    /\ UNCHANGED <<user_preference, native_token_symbols_to_fetch, token_prices_usd,
                   chain_idx, chain_metrics, optimal_chain>>

\* lines 348-396: await generate_explanation(...), then return
Explain ==
    /\ pc = "explain"
    /\ \E gemini \in GeminiOutcomes :
        /\ response' = RouteResponse(optimal_chain, chain_metrics, generate_explanation(gemini))
        /\ completed' = Append(completed, Ended("explain", gemini))
    /\ launched' = Append(launched, "explain")
    /\ pc' = "done"
    /\ UNCHANGED <<user_preference, native_token_symbols_to_fetch, token_prices_usd,
                   chain_idx, chain_metrics, optimal_chain>>

Next == FetchPrices \/ Collect \/ Rank \/ Explain

Spec == Init /\ [][Next]_vars

----------------------------------------------------------------------------
(* The ranking step on arbitrary metric sequences *)

\* a metric with the given block time and fee, named after the i-th registry entry
MetricAt(i, block_time, fee) ==
    [chain |-> CHAIN_CONFIGS[i].display_name,
     native_token_symbol |-> CHAIN_CONFIGS[i].native_token_symbol,
     gas_price_wei |-> 0,
     gas_price_gwei |-> 0,
     avg_block_time_seconds |-> block_time,
     estimated_fee_gwei |-> 0,
     estimated_fee_usd |-> fee,
     native_token_price_usd |-> IF fee = Inf THEN None ELSE 1000]

SelectFees == {10000000 * f : f \in 0..MaxFee} \cup {Inf}

\* the metric sequence that gives position i the block time and fee bf[i]
SelectInput(bf) == [i \in DOMAIN bf |-> MetricAt(i, bf[i][1], bf[i][2])]

InitSelect ==
    /\ user_preference \in Preferences
    /\ native_token_symbols_to_fetch = RegistrySymbols
    /\ pc = "rank"
    /\ token_prices_usd = AllNone(RegistrySymbols)
    /\ chain_idx = NumChains + 1
    /\ \E n \in 0..MaxLen :
        \E bf \in [1..n -> (1..MaxBlockTime) \X SelectFees] :
            chain_metrics = SelectInput(bf)
    /\ optimal_chain = NoChain
    /\ response = NoResponse
    /\ launched = <<>>
    /\ completed = <<>>

NextSelect == Rank \/ Explain

SpecSelect == InitSelect /\ [][NextSelect]_vars

----------------------------------------------------------------------------
(* The price fetch on arbitrary symbol sets *)

\* the registry's symbols: four have a CoinGecko id, BTC and SOL have none
InitPrices ==
    /\ user_preference \in Preferences
    /\ native_token_symbols_to_fetch \in (SUBSET TokenSymbols) \ {{}}
    /\ pc = "fetch_prices"
    /\ token_prices_usd = [s \in {} |-> None]
    /\ chain_idx = 1
    /\ chain_metrics = <<>>
    /\ optimal_chain = NoChain
    /\ response = NoResponse
    /\ launched = <<>>
    /\ completed = <<>>

NextPrices == FetchPrices

SpecPrices == InitPrices /\ [][NextPrices]_vars

----------------------------------------------------------------------------
(* Vocabulary of the properties *)

\* the call named task has ended with the given outcome
HasEnded(task, outcome) ==
    \E k \in 1..Len(completed) : completed[k].task = task /\ completed[k].outcome = outcome

\* registry positions whose collection returned / raised in this request
CollectedChains == {i \in 1..NumChains : HasEnded(CHAIN_CONFIGS[i].name, "ok")}
FailedChains == {i \in 1..NumChains : HasEnded(CHAIN_CONFIGS[i].name, "failed")}

Returned == pc = "done" /\ response.kind = "ok"
Failed == pc = "done" /\ response.kind = "error"

\* the chains of a sequence of metrics or report entries, in order
ChainsOf(seq) == [i \in 1..Len(seq) |-> seq[i].chain]

\* the display names of the registry in order, leaving out position x
RegistryWithout(x) ==
    [i \in 1..(NumChains - 1) |->
        IF i < x THEN CHAIN_CONFIGS[i].display_name ELSE CHAIN_CONFIGS[i + 1].display_name]

----------------------------------------------------------------------------
\* C1: whenever route returns a decision, the recommended chain is a chain whose
\* collection succeeded in this request and it appears in the returned
\* comparison set with the same values; a failed route carries no
\* recommendation and no comparison set.
C1_RecommendedIsCollected ==
    /\ pc = "done" => response.kind \in {"ok", "error"}
    /\ Returned =>
        /\ \E i \in CollectedChains :
                CHAIN_CONFIGS[i].display_name = response.recommendation.chain
        /\ \E k \in 1..Len(response.all_chains_metrics) :
            LET e == response.all_chains_metrics[k]
                d == response.recommendation.details
            IN  /\ e.chain = response.recommendation.chain
                /\ e.estimated_gas_fee_gwei = d.estimated_gas_fee_gwei
                /\ e.estimated_fee_usd = d.estimated_gas_fee_usd
                /\ e.avg_block_time_seconds = d.estimated_time_seconds
    /\ Failed => DOMAIN response = {"kind", "status_code", "detail"}

C1_Witness ==
    /\ Returned
    /\ FailedChains # {}
    /\ Cardinality(CollectedChains) >= 2
    /\ response.recommendation.chain # response.all_chains_metrics[1].chain

----------------------------------------------------------------------------
\* C2: with preference cheapest and a non-empty metric sequence, the request
\* fails with NoComparableChains when no metric has a comparable fee; otherwise
\* the chosen metric is comparable, its fee is at most that of every comparable
\* metric, and it is the earliest metric having that minimal fee.
C2_CheapestIsFirstMinimum ==
    (user_preference = "cheapest" /\ chain_metrics # <<>> /\ pc \in {"explain", "done"}) =>
        IF \A j \in 1..Len(chain_metrics) : chain_metrics[j].estimated_fee_usd = Inf
        THEN pc = "done" /\ response = NoComparableChains
        ELSE /\ \E k \in 1..Len(chain_metrics) :
                /\ optimal_chain = chain_metrics[k]
                /\ chain_metrics[k].estimated_fee_usd # Inf
                /\ \A j \in 1..Len(chain_metrics) :
                    chain_metrics[j].estimated_fee_usd # Inf =>
                        /\ chain_metrics[k].estimated_fee_usd <= chain_metrics[j].estimated_fee_usd
                        /\ j < k => chain_metrics[j].estimated_fee_usd
                                        > chain_metrics[k].estimated_fee_usd
             /\ pc = "done" =>
                    /\ response.kind = "ok"
                    /\ response.recommendation.chain = optimal_chain.chain

\* two metrics tied at the minimal fee, after a dearer one and an incomparable one
C2_Witness ==
    /\ user_preference = "cheapest"
    /\ Returned
    /\ Len(chain_metrics) >= 3
    /\ \E k \in 3..Len(chain_metrics) : \E j \in (k + 1)..Len(chain_metrics) :
        /\ optimal_chain = chain_metrics[k]
        /\ chain_metrics[j].estimated_fee_usd = chain_metrics[k].estimated_fee_usd
        /\ chain_metrics[1].estimated_fee_usd = Inf
        /\ chain_metrics[2].estimated_fee_usd # Inf
        /\ chain_metrics[2].estimated_fee_usd > chain_metrics[k].estimated_fee_usd

----------------------------------------------------------------------------
\* C3: with preference fastest and a non-empty metric sequence the request never
\* fails with NoComparableChains; the chosen metric has the minimal block time
\* of all collected metrics, incomparable fees included, and is the earliest
\* metric having that block time.
C3_FastestIsFirstMinimum ==
    (user_preference = "fastest" /\ chain_metrics # <<>> /\ pc \in {"explain", "done"}) =>
        /\ response # NoComparableChains
        /\ \E k \in 1..Len(chain_metrics) :
            /\ optimal_chain = chain_metrics[k]
            /\ \A j \in 1..Len(chain_metrics) :
                /\ chain_metrics[k].avg_block_time_seconds
                        <= chain_metrics[j].avg_block_time_seconds
                /\ j < k => chain_metrics[j].avg_block_time_seconds
                                > chain_metrics[k].avg_block_time_seconds
        /\ pc = "done" =>
            /\ response.kind = "ok"
            /\ response.recommendation.chain = optimal_chain.chain

\* the fastest is an incomparable chain, tied with a later, comparable one, after a
\* slower one
C3_Witness ==
    /\ user_preference = "fastest"
    /\ Returned
    /\ \E k \in 2..Len(chain_metrics) : \E j \in (k + 1)..Len(chain_metrics) :
        /\ optimal_chain = chain_metrics[k]
        /\ chain_metrics[k].estimated_fee_usd = Inf
        /\ chain_metrics[j].estimated_fee_usd # Inf
        /\ chain_metrics[j].avg_block_time_seconds = chain_metrics[k].avg_block_time_seconds
        /\ chain_metrics[1].avg_block_time_seconds > chain_metrics[k].avg_block_time_seconds

----------------------------------------------------------------------------
\* the collected chains whose native token price is unresolved in this request
Unpriced ==
    {i \in CollectedChains :
        DictGet(token_prices_usd, CHAIN_CONFIGS[i].native_token_symbol) = None}

\* C4: a chain that was collected but whose native token price is unresolved is
\* never the chain returned for preference cheapest, and every returned
\* decision still lists it in the comparison set with its USD fee marked "N/A".
C4_UnpricedNeverCheapestStillListed ==
    Returned =>
        \A i \in Unpriced :
            /\ user_preference = "cheapest" =>
                    response.recommendation.chain # CHAIN_CONFIGS[i].display_name
            /\ \E k \in 1..Len(response.all_chains_metrics) :
                /\ response.all_chains_metrics[k].chain = CHAIN_CONFIGS[i].display_name
                /\ response.all_chains_metrics[k].estimated_fee_usd = NA

\* a cheapest decision while a chain with a mapped token (ETH) and a lower gas
\* price than the chosen chain is unpriced
C4_Witness ==
    /\ Returned
    /\ user_preference = "cheapest"
    /\ \E i \in Unpriced : \E k \in 1..Len(chain_metrics) :
        /\ CHAIN_CONFIGS[i].native_token_symbol = "ETH"
        /\ chain_metrics[k].chain = CHAIN_CONFIGS[i].display_name
        /\ chain_metrics[k].gas_price_gwei < optimal_chain.gas_price_gwei

----------------------------------------------------------------------------
\* C5: when exactly one chain X fails collection and the others succeed, the
\* failure stays inside the loop: the metric list handed to ranking holds
\* exactly the other chains in registry order (X is absent), the request does
\* not fail with NoViableChains or with the collection error, preference
\* fastest returns a decision, and a returned decision lists those chains.
C5_CollectionIsolation ==
    (pc \in {"rank", "explain", "done"} /\ Cardinality(FailedChains) = 1) =>
        LET x == CHOOSE i \in 1..NumChains : i \in FailedChains
        IN  /\ ChainsOf(chain_metrics) = RegistryWithout(x)
            /\ pc = "explain" => optimal_chain = select(chain_metrics, user_preference).chain
            /\ Failed => response \in {NoComparableChains, InvalidPreference}
            /\ (pc = "done" /\ user_preference = "fastest") => response.kind = "ok"
            /\ Returned =>
                /\ ChainsOf(response.all_chains_metrics) = RegistryWithout(x)
                /\ response.recommendation.chain
                        = select(chain_metrics, user_preference).chain.chain

\* the chain that would have been the fastest (Solana) is the one that failed
C5_Witness ==
    /\ Returned
    /\ user_preference = "fastest"
    /\ FailedChains = {5}
    /\ Len(response.all_chains_metrics) = NumChains - 1
    /\ response.recommendation.chain = "Optimism Mainnet"

----------------------------------------------------------------------------
\* C6: when collection fails for every chain of the registry the request fails
\* with NoViableChains and nothing is chosen, whatever the price fetch did.
C6_AllFailedNoViableChains ==
    (pc \in {"rank", "explain", "done"} /\ Cardinality(FailedChains) = NumChains) =>
        /\ chain_metrics = <<>>
        /\ optimal_chain = NoChain
        /\ pc # "explain"
        /\ pc = "done" => response = NoViableChains

\* all collections failed although the price fetch resolved a price
C6_Witness ==
    /\ pc = "done"
    /\ Cardinality(FailedChains) = NumChains
    /\ response = NoViableChains
    /\ token_prices_usd["ETH"] # None

----------------------------------------------------------------------------
\* C7: a request whose preference is neither cheapest nor fastest fails with
\* InvalidPreference before any price fetch or collection is started.
C7_InvalidPreferenceRejectedFirst ==
    user_preference \notin {"cheapest", "fastest"} =>
        /\ launched = <<>>
        /\ pc = "done" => response = InvalidPreference

\* the failure reported for an unrecognised preference (the part of C7 that a
\* finished request shows)
C7_InvalidPreferenceReported ==
    (pc = "done" /\ user_preference \notin {"cheapest", "fastest"}) =>
        response = InvalidPreference

----------------------------------------------------------------------------
PricesEnded == \E k \in 1..Len(completed) : completed[k].task = "prices"
PriceRequestFailed ==
    \E k \in 1..Len(completed) : completed[k].task = "prices" /\ completed[k].outcome # "ok"

----------------------------------------------------------------------------
\* C9: for every set of requested symbols get_token_prices_usd returns an entry
\* for each requested symbol, None for a symbol with no lookup-table entry or
\* missing from the response, and the request is not aborted.
C9_EveryRequestedSymbolHasEntry ==
    PricesEnded =>
        /\ DOMAIN token_prices_usd = native_token_symbols_to_fetch
        /\ \A s \in native_token_symbols_to_fetch :
                s \notin DOMAIN COINGECKO_TOKEN_MAP => token_prices_usd[s] = None
        /\ response # PricesUnavailable

----------------------------------------------------------------------------
ExplainEnded == \E k \in 1..Len(completed) : completed[k].task = "explain"
ExplainFailed ==
    \E k \in 1..Len(completed) : completed[k].task = "explain" /\ completed[k].outcome # "ok"

\* C10: the explanation has no decision authority.  Once the explanation call
\* has ended, however it ended, the request returns a decision whose chosen
\* chain, details and comparison set are those computed from the request and
\* the collected metrics alone; a failed explanation only puts a fallback text
\* in the decision.
C10_ExplanationHasNoAuthority ==
    ExplainEnded =>
        /\ Returned
        /\ select(chain_metrics, user_preference).kind = "ok"
        /\ response.recommendation.chain = select(chain_metrics, user_preference).chain.chain
        /\ response.recommendation.details
                = DetailsOf(select(chain_metrics, user_preference).chain)
        /\ response.all_chains_metrics = all_chains_metrics_of(chain_metrics)
        /\ ExplainFailed <=> response.recommendation.ai_explanation \in FallbackTexts

C10_Witness ==
    /\ Returned
    /\ HasEnded("explain", "error")
    /\ response.recommendation.ai_explanation \in FallbackTexts
    /\ Len(response.all_chains_metrics) >= 2

----------------------------------------------------------------------------
\* C11: for every collected chain with a resolved native token price the
\* gwei-equivalent gas price is the raw gas price scaled by 10^9 (here: hundredths
\* of a gwei times 10^7 give back the wei), the USD fee is
\* gas_price_gwei * 21000 / 10^9 * native_token_price_usd, and a strictly positive
\* raw gas price with a positive price gives a strictly positive fee.
C11_FeeFromRawGasPrice ==
    \A k \in 1..Len(chain_metrics) :
        LET m == chain_metrics[k]
        IN  m.native_token_price_usd # None =>
                /\ m.gas_price_gwei * 10000000 = m.gas_price_wei
                /\ m.estimated_fee_usd = m.gas_price_gwei * 21000 * m.native_token_price_usd
                /\ (m.gas_price_wei > 0 /\ m.native_token_price_usd > 0) =>
                        m.estimated_fee_usd > 0

\* the part of C11 that the code keeps: the fee is the formula applied to the
\* gas price as rounded to two decimals of a gwei
C11_FeeFromRoundedGasPrice ==
    \A k \in 1..Len(chain_metrics) :
        LET m == chain_metrics[k]
        IN  m.native_token_price_usd # None =>
                /\ m.gas_price_gwei = RoundHalfEven(m.gas_price_wei, 10000000)
                /\ m.estimated_fee_usd = m.gas_price_gwei * 21000 * m.native_token_price_usd

----------------------------------------------------------------------------
(* The cheapest selection on two metric sequences that differ in one fee *)

MonoFees == {10000000 * f : f \in 0..MaxMonoFee}

\* metrics with position a's estimated_fee_usd replaced by fee
WithFeeAt(metrics, a, fee) ==
    [i \in 1..Len(metrics) |->
        IF i = a
        THEN [chain |-> metrics[i].chain,
              native_token_symbol |-> metrics[i].native_token_symbol,
              gas_price_wei |-> metrics[i].gas_price_wei,
              gas_price_gwei |-> metrics[i].gas_price_gwei,
              avg_block_time_seconds |-> metrics[i].avg_block_time_seconds,
              estimated_fee_gwei |-> metrics[i].estimated_fee_gwei,
              estimated_fee_usd |-> fee,
              native_token_price_usd |-> metrics[i].native_token_price_usd]
        ELSE metrics[i]]

InitMono ==
    /\ user_preference = "cheapest"
    /\ native_token_symbols_to_fetch = RegistrySymbols
    /\ pc = "rank"
    /\ token_prices_usd = AllNone(RegistrySymbols)
    /\ chain_idx = NumChains + 1
    /\ \E n \in 1..MaxMonoLen :
        \E bf \in [1..n -> {1} \X (MonoFees \cup {Inf})] :
            chain_metrics = SelectInput(bf)
    /\ optimal_chain = NoChain
    /\ response = NoResponse
    /\ launched = <<>>
    /\ completed = <<>>

\* after a selection was made on chain_metrics, the same request comes again
\* with one comparable chain's estimated_fee_usd strictly lower and everything
\* else unchanged; optimal_chain still holds the selection made before
LowerFee ==
    /\ pc = "explain"
    /\ \E a \in 1..Len(chain_metrics) : \E fee \in MonoFees :
        /\ chain_metrics[a].estimated_fee_usd # Inf
        /\ fee < chain_metrics[a].estimated_fee_usd
        /\ chain_metrics' = WithFeeAt(chain_metrics, a, fee)
    /\ pc' = "rank"
    /\ UNCHANGED <<user_preference, native_token_symbols_to_fetch, token_prices_usd,
                   chain_idx, optimal_chain, response, launched, completed>>

NextMono == Rank \/ LowerFee \/ Explain

SpecMono == InitMono /\ [][NextMono]_vars

\* the position at which two metric sequences of equal length differ
ChangedAt(before, after) == CHOOSE a \in 1..Len(before) : before[a] # after[a]

\* C12: monotonicity of the cheapest selection.  When comparable chain A's
\* estimated_fee_usd strictly decreases and nothing else changes, then: if A was
\* the selection before it is the selection after, and otherwise the selection
\* after is either the selection before or A.
C12_CheapestMonotone ==
    [][(pc = "explain" /\ pc' = "rank") =>
            LET a == ChangedAt(chain_metrics, chain_metrics')
                before == optimal_chain
                after == select(chain_metrics', user_preference)
            IN  /\ after.kind = "ok"
                /\ after.chain.chain \in {before.chain, chain_metrics[a].chain}
                /\ before.chain = chain_metrics[a].chain =>
                        after.chain.chain = before.chain]_vars

\* a fee was lowered after a selection, and the selection moves from a chain
\* that is now strictly dearer to the chain whose fee was lowered
C12_Witness ==
    /\ pc = "rank"
    /\ optimal_chain # NoChain
    /\ select(chain_metrics, user_preference).chain.chain # optimal_chain.chain
    /\ \E j \in 1..Len(chain_metrics) :
        /\ chain_metrics[j].chain = optimal_chain.chain
        /\ chain_metrics[j].estimated_fee_usd
                > select(chain_metrics, user_preference).chain.estimated_fee_usd

----------------------------------------------------------------------------
\* the price fetch and one collection per chain of the registry
FanOutTasks == {"prices"} \cup ChainNames

LaunchedTasks == {launched[k] : k \in 1..Len(launched)}
EndedTasks == {completed[k].task : k \in 1..Len(completed)}

\* C13: the price fetch and the per-chain collections form one fan-out: all of
\* these calls are launched before any of them is joined, and the ranking is
\* invoked only after every one of them has completed or failed.
C13_FanOutThenJoin ==
    /\ (EndedTasks \cap FanOutTasks # {}) => FanOutTasks \subseteq LaunchedTasks
    /\ (pc = "explain" \/ (pc = "done" /\ response # PricesUnavailable)) =>
            FanOutTasks \subseteq EndedTasks

\* the part of C13 that the code keeps: the ranking runs after every call ended
C13_RankAfterAllEnded ==
    (pc \in {"rank", "explain"} \/ (pc = "done" /\ response # PricesUnavailable)) =>
        FanOutTasks \subseteq EndedTasks

\* what the code does instead: a call is started only when every earlier one has ended
C13_OneCallAtATime ==
    [][launched' # launched => LaunchedTasks \subseteq EndedTasks]_vars

====
